---- MODULE Spec2Model ----
(***************************************************************************)
(* A model of makeServiceAreas (src/makeServiceAreas.py): the batch run    *)
(* over origin groups and, per group, the local / highway cost-distance    *)
(* alternation loop and the composition of the group's output raster.      *)
(*                                                                         *)
(* Numbers are fixed-point: the integer v stands for the Python number     *)
(* v / One, so with One == 2 every cost is a multiple of half a minute.    *)
(* A raster is a function from Cells to a value or NoData.  The grid is a  *)
(* line of NCells cells, each CellMeters wide.  The cost-distance tool,    *)
(* the value sampler and the cell statistics tool are ArcGIS tools; they   *)
(* are modelled by what their contract computes on this grid.              *)
(***************************************************************************)
EXTENDS Integers, Sequences, FiniteSets, TLC

\* ---------------------------------------------------------------- bounds
\* Number of cells of the grid (a line: cell k touches k-1 and k+1).
NCells == 3
\* Cap of the pass counter c: past it the loop still runs, c and cds freeze.
MaxPasses == 14
\* Number of runs of the function over one output store (a run, then reruns).
MaxRuns == 2

Cells == 1..NCells

\* ------------------------------------------------------- number encoding
\* The fixed-point image of the Python number 1 (the tolerance of line 238).
One == 2
\* roundRast's NoData stand-in, used here for every NoData / NULL value.
NoData == -999
\* Width of a cell in metres, and the buffer's metres per minute (line 181).
CellMeters == 750
MetersPerMinute == 1500

\* Python values of the loosely typed parameters: None, a str, a number.
None == [kind |-> "none", val |-> 0, name |-> ""]
Str(s) == [kind |-> "str", val |-> 0, name |-> s]
Num(v) == [kind |-> "num", val |-> v, name |-> ""]
\* Python's truth value of a parameter (if attFld:, if maxCost:, if reset_to:).
Truthy(p) == \/ p.kind = "str" /\ p.name # ""
             \/ p.kind = "num" /\ p.val # 0
\* isinstance(p, str), isinstance(p, int).
IsStr(p) == p.kind = "str"
IsInt(p) == p.kind = "num" /\ p.val % One = 0
\* int(x) for x >= 0, as a plain integer (not fixed-point).
PyInt(v) == v \div One

MinOf(S) == CHOOSE x \in S : \A y \in S : x <= y
MaxOf(S) == CHOOSE x \in S : \A y \in S : x >= y

\* ------------------------------------------------------------- variables
VARIABLES
  \* arguments of makeServiceAreas (fixed during a run)
  accFeat,      \* sequence of origin features [grp, cell, mins, score]
  costRastLoc,  \* local cost surface: Cells -> cost per cell or NoData
  costRastHwy,  \* highway cost surface
  rampPts,      \* sequence of connector points [id, cell]
  grpFld,       \* None or Str("grp")
  maxCost,      \* None, Str(field) or Num(v)
  attFld,       \* None, Str("round"), Str(field) or Num(v)
  \* the world outside the function
  env,          \* arcpy.env: [set, extent, workspace]
  outGDB,       \* output store: [exists, rast, feats]
  pgdb,         \* processing store: [exists, rast, tabs]
  \* locals of makeServiceAreas
  pc,           \* position in the function
  grps,         \* sorted unique group ids
  grp_min,      \* [bound, tab]: the dictionary of line 153, when assigned
  gi,           \* index of the for loop over grps
  rastout, cdpts, grpMaxCost,
  c, cds,       \* pass counter and list of pass raster names
  rp1s, rp2s,   \* layers: connector rows with a value in the last local / highway pass
  notin,        \* ids that improved in the last step
  \* history (not program state)
  calls,        \* the oracle calls of the current group: [surf, rast]
  solved,       \* the finished solves: [name, grp, out, calls, cutoff, single]
  runlog        \* the runs: [n, prev, failed, rast0, solved0], see NewRun

args == <<accFeat, costRastLoc, costRastHwy, rampPts, grpFld, maxCost, attFld>>
stores == <<env, outGDB, pgdb>>
locals == <<grps, grp_min, gi, rastout, cdpts, grpMaxCost, c, cds, rp1s, rp2s, notin>>
hist == <<calls, solved>>
vars == <<args, stores, locals, pc, hist, runlog>>

\* ------------------------------------------------------------ the oracle
\* Cost of moving between two adjacent cells: the mean of their costs.
StepCost(surf, a, b) == (surf[a] + surf[b]) \div 2
\* The cells from a to b, and the cost of the one path between them.
Between(a, b) == IF a <= b THEN a..b ELSE b..a
RECURSIVE PathCost(_, _, _)
PathCost(surf, a, b) ==
  IF a = b THEN 0
  ELSE IF a < b THEN StepCost(surf, a, a + 1) + PathCost(surf, a + 1, b)
  ELSE PathCost(surf, b, a)

\* arcpy.sa.CostDistance(sources, surf, maxd [, source_start_cost]) under the
\* processing extent ext: the least accumulated cost from any source.  src
\* maps a cell to the start cost of the source in it, or NoData.  NoData cells
\* of the surface are barriers and stay NoData, also under a source; cells
\* whose accumulated cost exceeds maxd are NoData.
CostDistance(src, surf, maxd, ext) ==
  LET use == {k \in ext : surf[k] # NoData}
      Reach(k) == {src[s] + PathCost(surf, s, k) :
                     s \in {t \in use : src[t] # NoData /\ Between(t, k) \subseteq use}}
  IN [k \in Cells |->
        IF k \in use /\ Reach(k) # {}
           /\ (maxd.kind = "none" \/ MinOf(Reach(k)) <= maxd.val)
        THEN MinOf(Reach(k)) ELSE NoData]

\* Source cells of a feature class of origins (no start cost: 0).
OriginSources(feats) ==
  [k \in Cells |-> IF \E j \in DOMAIN feats : feats[j].cell = k THEN 0 ELSE NoData]
\* Source cells of a connector table, the start cost read from its value field.
RampSources(tab) ==
  [k \in Cells |->
     LET vs == {tab[j].val : j \in {i \in DOMAIN tab : tab[i].cell = k}}
     IN IF vs = {} THEN NoData ELSE MinOf(vs)]

\* arcpy.sa.ExtractValuesToPoints(rampPts, rast, ...): one row per point.
ExtractValuesToPoints(pts, rast) ==
  [j \in DOMAIN pts |-> [id |-> pts[j].id, cell |-> pts[j].cell, val |-> rast[pts[j].cell]]]
\* MakeFeatureLayer(..., where_clause="<value> IS NOT NULL").
NotNull(tab) == SelectSeq(tab, LAMBDA r : r.val # NoData)
\* {a[0]: a[1] for a in SearchCursor(tab, [rampPtsID, value])}: the last row of an id wins.
RampDict(tab) ==
  [a \in {tab[j].id : j \in DOMAIN tab} |->
     tab[MaxOf({j \in DOMAIN tab : tab[j].id = a})].val]
\* The ids appended to notin: new in `new`, or more than one unit lower than in `old`.
Improved(new, old) ==
  {a \in DOMAIN new : IF a \notin DOMAIN old THEN TRUE ELSE new[a] - old[a] < -One}

\* ------------------------------------------------------- the compositor
EmptyFn == [x \in {} |-> 0]
\* Writing a named item into a store's name -> item map (overwriting).
Put(m, nm, v) == (nm :> v) @@ m

\* arcpy.sa.CellStatistics(names, "MINIMUM", "DATA") over rasters read by name.
CellStatistics(names, rast) ==
  [k \in Cells |->
     LET vs == {rast[names[j]][k] : j \in DOMAIN names} \ {NoData}
     IN IF vs = {} THEN NoData ELSE MinOf(vs)]

\* numpy's round to 0 digits (half to even) of a fixed-point number.
NpRound(v) ==
  LET q == v \div One
  IN IF v % One = 0 THEN v
     ELSE IF 2 * (v % One) < One THEN q * One
     ELSE IF 2 * (v % One) > One THEN (q + 1) * One
     ELSE IF q % 2 = 0 THEN q * One ELSE (q + 1) * One

\* roundRast(inRast, outRast, digits=0, reset_to): the raster it saves.
roundRast(inRast, reset_to) ==
  LET r  == inRast   \* RasterToNumPyArray(nodata_to_value=-999)
      r1 == IF Truthy(reset_to)
            THEN [k \in Cells |-> IF r[k] # NoData THEN reset_to.val ELSE NoData]
            ELSE [k \in Cells |-> IF r[k] = NoData THEN NoData ELSE NpRound(r[k])]
  IN r1              \* NumPyArrayToRaster(value_to_nodata=-999)

\* Attribute fields of the access features.
Fields == {"grp", "mins", "score"}
FieldVal(f, name) == IF name = "mins" THEN f.mins ELSE f.score
\* unique_values(table, field)[0]: the smallest value of the field.
FirstUnique(feats, name) == MinOf({FieldVal(feats[j], name) : j \in DOMAIN feats})

\* What lines 200-210 and 268-279 do with the raster src for attFld att:
\* [kind |-> "raster", rast] saved as rastout, "nothing" written, or an "error"
\* (the cursor of unique_values raises on a field that does not exist).
\* round(x, 3) is exact on the fixed-point numbers and is left out.
ValuePolicy(att, src, feats) ==
  IF att.kind # "none"
  THEN IF IsStr(att)
       THEN IF att.name = "round"
            THEN [kind |-> "raster", rast |-> roundRast(src, None)]
            ELSE IF att.name \notin Fields
                 THEN [kind |-> "error", rast |-> src]
                 ELSE [kind |-> "raster",
                       rast |-> roundRast(src, Num(FirstUnique(feats, att.name)))]
       ELSE IF IsInt(att)
            THEN [kind |-> "raster", rast |-> roundRast(src, att)]
            ELSE [kind |-> "nothing", rast |-> src]
  ELSE [kind |-> "raster", rast |-> src]

\* ------------------------------------------------------ groups and names
\* The group of a feature: its grpFld value, or 1 for every feature (line 143).
GrpOf(gf, f) == IF Truthy(gf) THEN f.grp ELSE Num(One)
\* Order of group ids under sorted(): numbers by value, strings by StrOrder.
StrOrder == <<"a", "b">>
Rank(g) == IF g.kind = "num" THEN g.val
           ELSE MinOf({j \in DOMAIN StrOrder : StrOrder[j] = g.name})
RECURSIVE SortSet(_)
SortSet(S) ==
  IF S = {} THEN <<>>
  ELSE LET m == CHOOSE x \in S : \A y \in S : Rank(x) <= Rank(y)
       IN <<m>> \o SortSet(S \ {m})
\* unique_values(featNm, grpFld).
unique_values(feats) == SortSet({feats[j].g : j \in DOMAIN feats})

\* Lines 157-164: the names derived from the group id.
GrpTag(i) == IF IsStr(i) THEN i.name ELSE ToString(PyInt(i.val))
RastName(i) == "grp_" \o GrpTag(i) \o "_servArea"
CdptsName(i) == "grp_" \o GrpTag(i) \o "_inputFeat"
CdName(k) == "cd" \o ToString(k)

\* CopyFeatures(accFeat, featNm) and the group field of line 143.
FeatCopy(feats, gf) ==
  [j \in DOMAIN feats |->
     [g |-> GrpOf(gf, feats[j]), cell |-> feats[j].cell, mins |-> feats[j].mins,
      score |-> feats[j].score, minutes_SA |-> NoData]]
\* Lines 148-151: CalculateField of minutes_SA from a field or a constant.
CalcMinutes(feats, mc) ==
  [j \in DOMAIN feats |->
     [feats[j] EXCEPT !.minutes_SA = IF IsStr(mc) THEN feats[j].mins ELSE mc.val]]
\* Line 153: {a[0]: a[1] for a in SearchCursor(featNm, [grpFld, 'minutes_SA'])}.
GrpMinDict(feats) ==
  [a \in {feats[j].g : j \in DOMAIN feats} |->
     feats[MaxOf({j \in DOMAIN feats : feats[j].g = a})].minutes_SA]
\* Select_analysis(featNm, cdpts, grpFld = i).
SelectGrp(feats, i) == SelectSeq(feats, LAMBDA f : f.g = i)

\* Lines 181-184: the extent of the buffer of int(grpMaxCost * 1500) metres.
BufferExtent(feats, mins) ==
  LET metres == (mins * MetersPerMinute) \div One
      r  == metres \div CellMeters
      ks == {feats[j].cell : j \in DOMAIN feats}
  IN {k \in Cells : MinOf(ks) - r <= k /\ k <= MaxOf(ks) + r}

\* ------------------------------------------------------------- inputs
F(g, k, m, s) == [grp |-> g, cell |-> k, mins |-> m, score |-> s]
\* The j-th smallest element of a set of cells.
Nth(S, j) == CHOOSE k \in S : Cardinality({m \in S : m < k}) = j - 1
\* Connector points on the cells of S, in cell order; one id per point, or
\* (shared) one id for the odd cells and one for the even cells.
RampTable(S, shared) ==
  [j \in 1..Cardinality(S) |->
     [id |-> IF shared THEN ((Nth(S, j) - 1) % 2) + 1 ELSE Nth(S, j), cell |-> Nth(S, j)]]
RampTables == {RampTable(S, sh) : S \in SUBSET Cells, sh \in BOOLEAN}
AllLocal == [k \in Cells |-> 7]
AllHwy == [k \in Cells |-> 1]
NoSurface == [k \in Cells |-> NoData]

\* Any two surfaces and connector set, one origin, no value policy.
SolverInputs ==
  [loc : [Cells -> {NoData, 7}], hwy : [Cells -> {NoData, 1}], ramps : RampTables,
   feat : {<<F(Num(One), k, 16, 3)>> : k \in Cells},
   gf : {None}, mc : {None, Num(4), Num(15)}, att : {None}, prior : {FALSE}]

FeatTables ==
  { <<F(Num(2), 1, 16, 3)>>,
    <<F(Num(2), 1, 16, 3), F(Num(4), 3, 7, 0)>>,
    <<F(Str("a"), 2, 16, 14), F(Str("b"), 1, 16, 3)>>,
    <<F(Num(2), 1, 16, 3), F(Num(3), 2, 16, 3)>>,
    <<F(Num(2), 1, 7, 3), F(Num(2), 3, 16, 0)>> }
\* Every max-cost and value-policy argument, on a few surfaces.
PolicyInputs ==
  [loc : {AllLocal}, hwy : {AllHwy, NoSurface},
   ramps : {RampTable({}, FALSE), RampTable(Cells, FALSE)},
   feat : FeatTables, gf : {None, Str("grp")},
   mc : {None, Num(0), Num(7), Num(16), Str("mins")},
   att : {None, Str("round"), Str("score"), Str("nofield"), Num(0), Num(14), Num(5)},
   prior : BOOLEAN]

\* The record of a run at its start: its number, how the run before it ended
\* and the output name it failed on, and the output store and the number of
\* finished solves the run found.
NewRun(n, prev, failed, rast, nsolved) ==
  [n |-> n, prev |-> prev, failed |-> failed, rast0 |-> rast, solved0 |-> nsolved]

\* The output store left by an earlier run that finished the first group.
PriorStore(feats, gf) ==
  [exists |-> TRUE,
   rast |-> (RastName(unique_values(FeatCopy(feats, gf))[1]) :> [k \in Cells |-> 0]),
   feats |-> ("accFeat_orig" :> FeatCopy(feats, gf))]

InitFrom(W) ==
  /\ \E w \in W :
       /\ accFeat = w.feat
       /\ costRastLoc = w.loc
       /\ costRastHwy = w.hwy
       /\ rampPts = w.ramps
       /\ grpFld = w.gf
       /\ maxCost = w.mc
       /\ attFld = w.att
       /\ outGDB = IF w.prior THEN PriorStore(w.feat, w.gf)
                   ELSE [exists |-> FALSE, rast |-> EmptyFn, feats |-> EmptyFn]
       /\ runlog = NewRun(1, "none", "",
                          IF w.prior THEN PriorStore(w.feat, w.gf).rast ELSE EmptyFn, 0)
  /\ env = [set |-> FALSE, extent |-> Cells, workspace |-> ""]
  /\ pgdb = [exists |-> FALSE, rast |-> EmptyFn, tabs |-> EmptyFn]
  /\ pc = "start"
  /\ grps = <<>>
  /\ grp_min = [bound |-> FALSE, tab |-> EmptyFn]
  /\ gi = 0
  /\ rastout = ""
  /\ cdpts = ""
  /\ grpMaxCost = None
  /\ c = 0
  /\ cds = <<>>
  /\ rp1s = <<>>
  /\ rp2s = <<>>
  /\ notin = {}
  /\ calls = <<>>
  /\ solved = <<>>

Init == InitFrom(SolverInputs \cup PolicyInputs)
\* A few runs that between them take every step of the function, for the
\* checks of behaviours that never end.
LoopInputs ==
  {w \in SolverInputs : w.mc = None /\ w.feat[1].cell = NCells
                         /\ w.ramps = RampTable(Cells, FALSE)}
  \cup {w \in PolicyInputs : w.hwy = AllHwy /\ Len(w.feat) = 1 /\ w.gf = None
                              /\ w.mc \in {None, Num(16)} /\ w.att \in {None, Num(14)}}
LoopInit == InitFrom(LoopInputs)

\* ------------------------------------------------------------ the run
\* Line 118: `not [attFld in [names]]`, the negation of a one-element list:
\* Python's `not` of a list is true when the list is empty.
FieldMissing(att) == IsStr(att) /\ Len(<<att.name \in Fields>>) = 0
\* Lines 114-120: the conditions under which the run returns at once.
Rejects(att, mc) == Truthy(att) /\ (~Truthy(mc) \/ FieldMissing(att))

\* The highway oracle call without the cutoff argument.
HwyCD_NoCutoff(tab) == CostDistance(RampSources(tab), costRastHwy, None, env.extent)
\* The highway oracle call seeded, after the first iteration, with the
\* connectors of notin only.
HwyCD_ImprovedOnly(tab) ==
  CostDistance(RampSources(IF c = 1 THEN tab ELSE SelectSeq(tab, LAMBDA r : r.id \in notin)),
               costRastHwy, grpMaxCost, env.extent)
\* The pass list restarted from, or not extended by, the new pass.
AppendPass_Reset(list, nm) == <<nm>>
AppendPass_Drop(list, nm) == list
\* The new pass entered at the front of the pass list.
AppendPass_Front(list, nm) == <<nm>> \o list

\* The three oracle calls (lines 189, 219, 246) under the current extent.
LocalCD(feats) == CostDistance(OriginSources(feats), costRastLoc, grpMaxCost, env.extent)
HwyCD(tab) == CostDistance(RampSources(tab), costRastHwy, grpMaxCost, env.extent)
BackCD(tab) == CostDistance(RampSources(tab), costRastLoc, grpMaxCost, env.extent)
\* cds = cds + [nm] (lines 223, 250).
AppendPass(list, nm) == list \o <<nm>>

\* Line 116-117: the run returns before it touches anything.
Reject ==
  /\ pc = "start"
  /\ Rejects(attFld, maxCost)
  /\ pc' = "rejected"
  /\ UNCHANGED <<args, runlog, stores, locals, hist>>

\* Lines 122-153: environment, stores, the copy of the features, the groups
\* and the group -> minutes dictionary.
Setup ==
  /\ pc = "start"
  /\ ~Rejects(attFld, maxCost)
  /\ LET copy  == IF "accFeat_orig" \in DOMAIN outGDB.feats
                  THEN outGDB.feats["accFeat_orig"]
                  ELSE FeatCopy(accFeat, grpFld)
         feats == IF Truthy(maxCost) THEN CalcMinutes(copy, maxCost) ELSE copy
     IN /\ outGDB' = [outGDB EXCEPT !.exists = TRUE,
                                    !.feats = Put(@, "accFeat_orig", feats)]
        /\ grps' = unique_values(feats)
        /\ grp_min' = IF Truthy(maxCost)
                      THEN [bound |-> TRUE, tab |-> GrpMinDict(feats)]
                      ELSE grp_min
  /\ env' = [set |-> TRUE, extent |-> Cells, workspace |-> "outGDB"]
  /\ pgdb' = [exists |-> TRUE, rast |-> EmptyFn, tabs |-> EmptyFn]
  /\ gi' = 1
  /\ pc' = "groups"
  /\ UNCHANGED <<args, runlog, rastout, cdpts, grpMaxCost, c, cds, rp1s, rp2s, notin, hist>>

\* Lines 155-167: the group's output exists already, continue with the next.
GroupSkip ==
  /\ pc = "groups"
  /\ gi <= Len(grps)
  /\ RastName(grps[gi]) \in DOMAIN outGDB.rast
  /\ rastout' = RastName(grps[gi])
  /\ cdpts' = CdptsName(grps[gi])
  /\ gi' = gi + 1
  /\ UNCHANGED <<args, runlog, stores, pc, grps, grp_min, grpMaxCost, c, cds, rp1s, rp2s, notin, hist>>

\* Lines 155-186: names, extent reset, the group's features, its cutoff and
\* the buffer extent.  grp_min is read whenever maxCost is not None, also
\* when line 147 did not assign it (a NameError).
GroupBegin ==
  /\ pc = "groups"
  /\ gi <= Len(grps)
  /\ RastName(grps[gi]) \notin DOMAIN outGDB.rast
  /\ LET i   == grps[gi]
         sel == SelectGrp(outGDB.feats["accFeat_orig"], i)
     IN /\ rastout' = RastName(i)
        /\ cdpts' = CdptsName(i)
        /\ c' = 1
        /\ calls' = <<>>
        /\ IF maxCost.kind # "none"
           THEN IF grp_min.bound
                THEN /\ grpMaxCost' = Num(grp_min.tab[i])
                     /\ outGDB' = [outGDB EXCEPT
                          !.feats = Put(Put(@, CdptsName(i), sel), "buffext", sel)]
                     /\ env' = [env EXCEPT !.extent = BufferExtent(sel, grp_min.tab[i])]
                     /\ pc' = "local"
                ELSE /\ grpMaxCost' = grpMaxCost
                     /\ outGDB' = [outGDB EXCEPT !.feats = Put(@, CdptsName(i), sel)]
                     /\ env' = [env EXCEPT !.extent = Cells]
                     /\ pc' = "error"
           ELSE /\ grpMaxCost' = None
                /\ outGDB' = [outGDB EXCEPT !.feats = Put(@, CdptsName(i), sel)]
                /\ env' = [env EXCEPT !.extent = Cells]
                /\ pc' = "local"
  /\ UNCHANGED <<args, runlog, pgdb, grps, grp_min, gi, cds, rp1s, rp2s, notin, solved>>

\* The first local pass saved under the group's output name as well.
LocalPass_SavesOutput ==
  /\ pc = "local"
  /\ LET cd1 == LocalCD(outGDB.feats[cdpts])
         nm  == CdName(c)
         rp1 == ExtractValuesToPoints(rampPts, cd1)
     IN /\ pgdb' = [pgdb EXCEPT !.rast = Put(@, nm, cd1), !.tabs = Put(@, "rp1", rp1)]
        /\ outGDB' = [outGDB EXCEPT !.rast = Put(@, rastout, cd1)]
        /\ cds' = <<nm>>
        /\ rp1s' = NotNull(rp1)
        /\ calls' = Append(calls, [surf |-> "loc", rast |-> cd1])
        /\ IF Len(NotNull(rp1)) = 0
           THEN pc' = "single" /\ notin' = notin
           ELSE pc' = "hwy" /\ notin' = {1}
  /\ UNCHANGED <<args, runlog, env, grps, grp_min, gi, rastout, cdpts, grpMaxCost, c, rp2s, solved>>

\* Lines 188-198 and 213: the first local pass, the connector values, and the
\* choice between the local-only output and the loop.
LocalPass ==
  /\ pc = "local"
  /\ LET cd1 == LocalCD(outGDB.feats[cdpts])
         nm  == CdName(c)
         rp1 == ExtractValuesToPoints(rampPts, cd1)
     IN /\ pgdb' = [pgdb EXCEPT !.rast = Put(@, nm, cd1), !.tabs = Put(@, "rp1", rp1)]
        /\ cds' = <<nm>>
        /\ rp1s' = NotNull(rp1)
        /\ calls' = Append(calls, [surf |-> "loc", rast |-> cd1])
        /\ IF Len(NotNull(rp1)) = 0
           THEN pc' = "single" /\ notin' = notin
           ELSE pc' = "hwy" /\ notin' = {1}
  /\ UNCHANGED <<args, runlog, env, outGDB, grps, grp_min, gi, rastout, cdpts, grpMaxCost, c, rp2s, solved>>

\* Saving a pass: c += 1, the raster under cd<c>, its name appended to cds.
\* At the cap of the model the pass is computed but no longer recorded.
\* tabs: the connector tables the step has written to the processing store.
SavePass(cd, surf, tabs) ==
  IF c < MaxPasses
  THEN /\ c' = c + 1
       /\ pgdb' = [pgdb EXCEPT !.rast = Put(@, CdName(c + 1), cd), !.tabs = tabs @@ @]
       /\ cds' = AppendPass(cds, CdName(c + 1))
       /\ calls' = Append(calls, [surf |-> surf, rast |-> cd])
  ELSE /\ pgdb' = [pgdb EXCEPT !.tabs = tabs @@ @]
       /\ UNCHANGED <<c, cds, calls>>

\* Lines 214-242: the highway step of one iteration.
HighwayStep ==
  /\ pc = "hwy"
  /\ LET cd2  == HwyCD(rp1s)
         rp2  == ExtractValuesToPoints(rampPts, cd2)
         lahr == RampDict(NotNull(rp2))
         locr == RampDict(rp1s)
     IN /\ SavePass(cd2, "hwy", ("rp1s" :> rp1s) @@ ("rp2" :> rp2))
        /\ rp2s' = NotNull(rp2)
        /\ notin' = Improved(lahr, locr)
        /\ pc' = IF Improved(lahr, locr) = {} THEN "compose" ELSE "back"
  /\ UNCHANGED <<args, runlog, env, outGDB, grps, grp_min, gi, rastout, cdpts, grpMaxCost, rp1s, solved>>

\* Lines 244-266: the local step of one iteration and the loop test.
LocalStep ==
  /\ pc = "back"
  /\ LET cd3  == BackCD(rp2s)
         rp1  == ExtractValuesToPoints(rampPts, cd3)
         locr == RampDict(NotNull(rp1))
         lahr == RampDict(rp2s)
     IN /\ SavePass(cd3, "loc", ("rp2s" :> rp2s) @@ ("rp1" :> rp1))
        /\ rp1s' = NotNull(rp1)
        /\ notin' = Improved(locr, lahr)
        /\ pc' = IF Improved(locr, lahr) = {} THEN "compose" ELSE "hwy"
  /\ UNCHANGED <<args, runlog, env, outGDB, grps, grp_min, gi, rastout, cdpts, grpMaxCost, rp2s, solved>>

\* Saving the group's output (or failing, or writing nothing) and going on.
Persist(out, single) ==
  /\ outGDB' = IF out.kind = "raster"
               THEN [outGDB EXCEPT !.rast = Put(@, rastout, out.rast)]
               ELSE outGDB
  /\ solved' = Append(solved, [name |-> rastout, grp |-> grps[gi], out |-> out,
                               calls |-> calls, cutoff |-> grpMaxCost, single |-> single])
  /\ pc' = IF out.kind = "error" THEN "error" ELSE "groups"
  /\ gi' = IF out.kind = "error" THEN gi ELSE gi + 1

\* Lines 198-210: no connector reached, the output is made from cd1.
ComposeSingle ==
  /\ pc = "single"
  /\ Persist(ValuePolicy(attFld, pgdb.rast["cd1"], outGDB.feats[cdpts]), TRUE)
  /\ UNCHANGED <<args, runlog, env, pgdb, grps, grp_min, rastout, cdpts, grpMaxCost, c, cds,
                 rp1s, rp2s, notin, calls>>

\* Lines 268-283: the output is made from the cellwise minimum of the passes.
Compose ==
  /\ pc = "compose"
  /\ Persist(ValuePolicy(attFld, CellStatistics(cds, pgdb.rast), outGDB.feats[cdpts]), FALSE)
  /\ UNCHANGED <<args, runlog, env, pgdb, grps, grp_min, rastout, cdpts, grpMaxCost, c, cds,
                 rp1s, rp2s, notin, calls>>

\* Lines 285-290: the processing store is deleted and the extent reset.
Finish ==
  /\ pc = "groups"
  /\ gi > Len(grps)
  /\ pgdb' = [exists |-> FALSE, rast |-> EmptyFn, tabs |-> EmptyFn]
  /\ env' = [env EXCEPT !.extent = Cells]
  /\ pc' = "done"
  /\ UNCHANGED <<args, runlog, outGDB, locals, hist>>

Next ==
  \/ Reject
  \/ Setup
  \/ GroupSkip
  \/ GroupBegin
  \/ LocalPass
  \/ HighwayStep
  \/ LocalStep
  \/ ComposeSingle
  \/ Compose
  \/ Finish

Spec == Init /\ [][Next]_vars

\* ------------------------------------------------- failures and reruns
\* Lines 189, 219, 246: the cost-distance tool raises.  The exception leaves
\* the function; what the step wrote before the call (the copy of the
\* connector layer, lines 216 and 245) stays in the processing store.
OracleFails ==
  /\ pc \in {"local", "hwy", "back"}
  /\ pgdb' = IF pc = "hwy" THEN [pgdb EXCEPT !.tabs = Put(@, "rp1s", rp1s)]
             ELSE IF pc = "back" THEN [pgdb EXCEPT !.tabs = Put(@, "rp2s", rp2s)]
             ELSE pgdb
  /\ pc' = "failed"
  /\ UNCHANGED <<args, runlog, env, outGDB, locals, hist>>

\* Lines 195, 225, 252: ExtractValuesToPoints raises, after the pass raster
\* of the step was saved and entered in the pass list.
SamplerFails ==
  /\ pc \in {"local", "hwy", "back"}
  /\ IF pc = "local"
     THEN LET cd1 == LocalCD(outGDB.feats[cdpts])
          IN /\ pgdb' = [pgdb EXCEPT !.rast = Put(@, CdName(c), cd1)]
             /\ cds' = <<CdName(c)>>
             /\ calls' = Append(calls, [surf |-> "loc", rast |-> cd1])
             /\ c' = c
     ELSE IF pc = "hwy"
          THEN SavePass(HwyCD(rp1s), "hwy", ("rp1s" :> rp1s))
          ELSE SavePass(BackCD(rp2s), "loc", ("rp2s" :> rp2s))
  /\ pc' = "failed"
  /\ UNCHANGED <<args, runlog, env, outGDB, grps, grp_min, gi, rastout, cdpts, grpMaxCost,
                 rp1s, rp2s, notin, solved>>

\* The function is called again with the same arguments on the same output
\* store, after a run that completed or failed: fresh locals, the stores and
\* the environment as the run before left them.
Rerun ==
  /\ pc \in {"done", "failed"}
  /\ runlog.n < MaxRuns
  /\ runlog' = NewRun(runlog.n + 1, pc, IF pc = "failed" THEN rastout ELSE "",
                      outGDB.rast, Len(solved))
  /\ pc' = "start"
  /\ grps' = <<>>
  /\ grp_min' = [bound |-> FALSE, tab |-> EmptyFn]
  /\ gi' = 0
  /\ rastout' = ""
  /\ cdpts' = ""
  /\ grpMaxCost' = None
  /\ c' = 0
  /\ cds' = <<>>
  /\ rp1s' = <<>>
  /\ rp2s' = <<>>
  /\ notin' = {}
  /\ calls' = <<>>
  /\ UNCHANGED <<args, stores, solved>>

\* Runs in which a tool can fail and the function can be run again.
RunInputs == PolicyInputs \cup LoopInputs
RunInit == InitFrom(RunInputs)
RunNext == Next \/ OracleFails \/ SamplerFails \/ Rerun
RunSpec == RunInit /\ [][RunNext]_vars
\* The function is one sequential program: it takes its next step.
FairSpec == LoopInit /\ [][Next]_vars /\ WF_vars(Next)

\* ------------------------------------------------------ a concurrent run
\* A second run of the function on the same outGDB at the same time.  Its
\* processing store is the same one (line 131 derives the path from outGDB
\* alone) and its first pass is saved there under cd1 (lines 189-191), from
\* an origin of its own.
OtherRunPass ==
  /\ pgdb.exists
  /\ pc \in {"local", "hwy", "back", "single", "compose"}
  /\ \E o \in Cells :
        pgdb' = [pgdb EXCEPT !.rast =
                   Put(@, CdName(1),
                       CostDistance([k \in Cells |-> IF k = o THEN 0 ELSE NoData],
                                    costRastLoc, grpMaxCost, Cells))]
  /\ UNCHANGED <<args, runlog, env, outGDB, locals, pc, hist>>

ConcNext == Next \/ OtherRunPass
ConcSpec == RunInit /\ [][ConcNext]_vars

\* ----------------------------------------------------------- the claims
\* The cellwise minimum of a sequence of rasters, from the oracle's outputs.
MinOfPasses(cs) ==
  [k \in Cells |->
     LET vs == {cs[j].rast[k] : j \in DOMAIN cs} \ {NoData}
     IN IF vs = {} THEN NoData ELSE MinOf(vs)]
InLoop == pc \in {"hwy", "back"}
\* Every id recorded in `old` is recorded in `new`, with a cost no higher.
NoWorse(old, new) == \A a \in DOMAIN old : a \in DOMAIN new /\ new[a] <= old[a]

\* C1: the highway / local alternation loop of a group's solve terminates:
\* a run inside the loop eventually leaves it and composes the group's output.
C1_LoopTerminates == InLoop ~> (pc = "compose")

\* C2: the number of iterations of the alternation loop (highway steps run,
\* c \div 2) never exceeds twice the number of connector points.
C2_IterationBound ==
  pc \in {"hwy", "back", "compose"} => c \div 2 <= 2 * Len(rampPts)

\* C3: within one solve the arrival cost recorded for a connector id on a
\* sheet never increases from one pass on that sheet to the next, and a
\* recorded id is never lost: for the Local-arrival table over a local step,
\* for the Highway-arrival table over a highway step after the first.
C3_ArrivalMonotone ==
  [][ /\ (pc = "back" => NoWorse(RampDict(rp1s), RampDict(rp1s')))
      /\ (pc = "hwy" /\ c > 1 => NoWorse(RampDict(rp2s), RampDict(rp2s'))) ]_vars

\* What the run knows of a solve: the group's cutoff as given by the arguments
\* (the number, or the field value of the group's last feature), the raster
\* persisted under the group's name, and the first (local-only) pass.
HasCutoff == Truthy(maxCost)
CutoffOf(i) ==
  IF maxCost.kind = "num" THEN maxCost.val
  ELSE accFeat[MaxOf({j \in DOMAIN accFeat : GrpOf(grpFld, accFeat[j]) = i})].mins
Final(s) == outGDB.rast[s.name]
Persisted(s) == s.out.kind = "raster" /\ s.name \in DOMAIN outGDB.rast
FirstPass(s) == s.calls[1].rast
Bounded(r, C) == \A k \in Cells : r[k] # NoData => r[k] <= C
Solving == pc \in {"hwy", "back", "single", "compose"}
Actual == attFld = None
Rounded == attFld = Str("round")
PassesBounded ==
  /\ Solving => \A j \in DOMAIN calls : Bounded(calls[j].rast, CutoffOf(grps[gi]))
  /\ \A n \in DOMAIN solved :
       \A j \in DOMAIN solved[n].calls :
          Bounded(solved[n].calls[j].rast, CutoffOf(solved[n].grp))

\* C4 as stated: with a numeric cutoff C, every defined cell of every pass
\* raster and of the group's final raster is <= C, whatever the value policy.
C4_CutoffBoundAnyPolicy ==
  HasCutoff =>
    /\ PassesBounded
    /\ \A n \in DOMAIN solved :
         Persisted(solved[n]) => Bounded(Final(solved[n]), CutoffOf(solved[n].grp))

\* C4 amended: with a numeric cutoff C, every defined cell of every pass
\* raster is <= C; the final raster is <= C under the Actual policy and
\* <= C rounded to the nearest integer under the Rounded policy.
C4_CutoffBound ==
  HasCutoff =>
    /\ PassesBounded
    /\ \A n \in DOMAIN solved :
         Persisted(solved[n]) =>
           /\ Actual => Bounded(Final(solved[n]), CutoffOf(solved[n].grp))
           /\ Rounded => Bounded(Final(solved[n]), NpRound(CutoffOf(solved[n].grp)))

\* A solve through the loop whose cutoff left a passable cell without a value.
C4_Witness ==
  \E n \in DOMAIN solved :
     /\ HasCutoff /\ Actual /\ Persisted(solved[n]) /\ Len(solved[n].calls) >= 3
     /\ \E k \in Cells : Final(solved[n])[k] # NoData
     /\ \E k \in Cells : costRastLoc[k] # NoData /\ Final(solved[n])[k] = NoData

\* C5 as stated: wherever the first pass is defined, the final raster's
\* value is <= the first pass's value, whatever the value policy.
C5_DominanceAnyPolicy ==
  \A n \in DOMAIN solved :
     Persisted(solved[n]) =>
       \A k \in Cells :
          FirstPass(solved[n])[k] # NoData =>
            /\ Final(solved[n])[k] # NoData
            /\ Final(solved[n])[k] <= FirstPass(solved[n])[k]

\* C5 amended: wherever the first pass is defined, the final raster is
\* defined and its value is <= the first pass's value under the Actual
\* policy, and <= the rounded first-pass value under the Rounded policy.
C5_Dominance ==
  \A n \in DOMAIN solved :
     Persisted(solved[n]) /\ (Actual \/ Rounded) =>
       \A k \in Cells :
          FirstPass(solved[n])[k] # NoData =>
            /\ Final(solved[n])[k] # NoData
            /\ Final(solved[n])[k] <=
                 IF Actual THEN FirstPass(solved[n])[k]
                 ELSE NpRound(FirstPass(solved[n])[k])

\* A final raster strictly below the first pass at a cell the first pass reached.
C5_Witness ==
  \E n \in DOMAIN solved :
     /\ Actual /\ Persisted(solved[n])
     /\ \E k \in Cells : /\ FirstPass(solved[n])[k] # NoData
                         /\ Final(solved[n])[k] < FirstPass(solved[n])[k]

\* Pass 1 gave a value at some connector, or at none.
RampReached(s) == \E j \in DOMAIN rampPts : FirstPass(s)[rampPts[j].cell] # NoData

\* C6: under the Actual policy, when pass 1 reaches a connector, the group's
\* persisted raster is the cellwise minimum over all the pass rasters of the
\* solve, the last highway pass included.
C6_ActualIsMinimum ==
  \A n \in DOMAIN solved :
     Actual /\ RampReached(solved[n]) =>
       /\ Persisted(solved[n])
       /\ Final(solved[n]) = MinOfPasses(solved[n].calls)

\* A solve that ended on a highway pass which lowers the minimum somewhere.
C6_Witness ==
  \E n \in DOMAIN solved :
     LET cs == solved[n].calls
     IN /\ Actual /\ RampReached(solved[n]) /\ Persisted(solved[n])
        /\ cs[Len(cs)].surf = "hwy"
        /\ Final(solved[n]) # MinOfPasses(SubSeq(cs, 1, Len(cs) - 1))

\* The value policies of the design: the constant of a constant policy, and
\* the raster a policy makes of the composed minimum m under cutoff C.
ConstantPolicy == attFld.kind = "num" \/ (IsStr(attFld) /\ attFld.name \in Fields)
ConstantOf(i) ==
  IF attFld.kind = "num" THEN attFld.val
  ELSE MinOf({FieldVal(accFeat[j], attFld.name) :
                j \in {n \in DOMAIN accFeat : GrpOf(grpFld, accFeat[n]) = i}})
PolicyRaster(m, i) ==
  IF Actual THEN m
  ELSE IF Rounded THEN [k \in Cells |-> IF m[k] = NoData THEN NoData ELSE NpRound(m[k])]
  ELSE [k \in Cells |->
          IF m[k] # NoData /\ (~HasCutoff \/ m[k] <= CutoffOf(i))
          THEN ConstantOf(i) ELSE NoData]

\* C7: if pass 1 yields a value at no connector, the solve makes exactly one
\* oracle call, on the Local surface, and the persisted output is pass 1
\* with the value policy applied.
C7_LocalOnly ==
  \A n \in DOMAIN solved :
     ~RampReached(solved[n]) /\ (Actual \/ Rounded \/ ConstantPolicy) =>
       /\ Len(solved[n].calls) = 1
       /\ solved[n].calls[1].surf = "loc"
       /\ Persisted(solved[n])
       /\ Final(solved[n]) = PolicyRaster(FirstPass(solved[n]), solved[n].grp)

\* C8: under a constant value policy with a cutoff, the persisted raster
\* has the constant at every cell whose composed minimum cost is within the
\* cutoff and NoData at every other cell.
C8_ConstantPolicy ==
  \A n \in DOMAIN solved :
     ConstantPolicy /\ HasCutoff =>
       /\ Persisted(solved[n])
       /\ Final(solved[n]) = PolicyRaster(MinOfPasses(solved[n].calls), solved[n].grp)

\* C9: a value policy that needs a constant, with no maxCost, is rejected
\* before any computation: no oracle call, no store made or deleted, the
\* environment untouched, nothing written.
C9_RejectedWithoutCutoff ==
  ConstantPolicy /\ maxCost = None =>
    /\ pc \in {"start", "rejected"}
    /\ calls = <<>> /\ solved = <<>>
    /\ ~env.set /\ ~pgdb.exists

\* C10: a value policy naming a field the origin features do not have fails
\* fast: the run returns before any per-group work, calls no oracle and
\* writes no output.
C10_MissingFieldFailsFast ==
  IsStr(attFld) /\ attFld.name \notin Fields \cup {"round"} =>
    /\ pc \in {"start", "rejected"}
    /\ calls = <<>> /\ solved = <<>>

\* The finished solves of the current run, and those that wrote a raster.
ThisRun == {n \in DOMAIN solved : n > runlog.solved0}
Wrote(n) == solved[n].out.kind = "raster"

\* C11: a group whose output raster exists is skipped, so over all the runs
\* on one output store a raster name is written at most once and never when
\* it existed at the start of the run; and a run after a completed run with
\* the same inputs makes no oracle call, solves no group and leaves every
\* persisted raster as it was.
C11_SkipIfExists ==
  /\ \A m, n \in DOMAIN solved :
        Wrote(m) /\ Wrote(n) /\ solved[m].name = solved[n].name => m = n
  /\ \A n \in ThisRun : solved[n].name \notin DOMAIN runlog.rast0
  /\ runlog.prev = "done" =>
        /\ calls = <<>>
        /\ ThisRun = {}
        /\ outGDB.rast = runlog.rast0

\* The group ids of the origin features.
Groups == {GrpOf(grpFld, accFeat[j]) : j \in DOMAIN accFeat}

\* C12: when a run has completed, every group whose output name did not
\* exist at the start of the run has a raster in the output store that a
\* solve of that very group wrote in this run, whatever the type of the
\* group id and whatever the value policy.
C12_EveryGroupPersisted ==
  pc = "done" =>
    \A g \in Groups :
       RastName(g) \notin DOMAIN runlog.rast0 =>
         \E n \in ThisRun : /\ solved[n].grp = g
                             /\ Wrote(n)
                             /\ solved[n].name \in DOMAIN outGDB.rast

\* C13: when an oracle or sampler call fails during a group's solve, the
\* group's output name is not in the output store afterwards; the rerun
\* finds the name absent, does not skip the group, and a rerun that
\* completes has solved it again.
C13_FailureLeavesNoOutput ==
  /\ pc = "failed" => rastout \notin DOMAIN outGDB.rast
  /\ runlog.prev = "failed" =>
        /\ runlog.failed \notin DOMAIN runlog.rast0
        /\ runlog.failed \in DOMAIN outGDB.rast \/ pc = "done" =>
              \E n \in ThisRun : solved[n].name = runlog.failed

\* A rerun that completed after a run whose second group failed inside the
\* loop, with the failed group's raster now in the store.
C13_Witness ==
  /\ runlog.prev = "failed" /\ runlog.solved0 >= 1
  /\ pc = "done"
  /\ runlog.failed \in DOMAIN outGDB.rast
  /\ \E n \in ThisRun : solved[n].name = runlog.failed /\ Len(solved[n].calls) >= 3

\* The run has ended: it completed, it rejected the configuration, or the
\* exception of a failing tool left the function.
Ended == pc \in {"done", "rejected", "failed"}
\* The feature classes of the output store other than the copy of the origins.
TransientFeats == DOMAIN outGDB.feats \ {"accFeat_orig"}

\* C14: on every exit path of a run (completion, rejection, a failing tool)
\* every transient artefact has been removed when the run ends: the
\* processing store with its pass rasters and connector tables, the
\* per-group selection of origins and the extent buffer.
C14_TransientsRemoved ==
  Ended => ~pgdb.exists /\ TransientFeats = {}

\* What a solve of group g alone works from: the group's own origins, its
\* own cutoff and the extent that follows from them.
OwnFeats(g) ==
  SelectGrp(IF HasCutoff THEN CalcMinutes(FeatCopy(accFeat, grpFld), maxCost)
            ELSE FeatCopy(accFeat, grpFld), g)
OwnCutoff(g) == IF maxCost = None THEN None ELSE Num(CutoffOf(g))
OwnExtent(g) == IF maxCost = None THEN Cells ELSE BufferExtent(OwnFeats(g), CutoffOf(g))
\* The solve s is the solve of its group alone: pass 1 comes from the group's
\* origins, every later pass from the connectors sampled on the pass before
\* it, and the output from the passes of this solve, under the group's own
\* cutoff and extent.
IsOwnSolve(s) ==
  LET g == s.grp
      Surf(k) == IF k % 2 = 0 THEN costRastHwy ELSE costRastLoc
  IN /\ s.calls[1].rast =
          CostDistance(OriginSources(OwnFeats(g)), costRastLoc, OwnCutoff(g), OwnExtent(g))
     /\ \A k \in 2..Len(s.calls) :
          s.calls[k].rast =
            CostDistance(RampSources(NotNull(ExtractValuesToPoints(rampPts, s.calls[k-1].rast))),
                         Surf(k), OwnCutoff(g), OwnExtent(g))
     /\ s.out = ValuePolicy(attFld, MinOfPasses(s.calls), OwnFeats(g))
     /\ s.out.kind = "raster" => Persisted(s) /\ Final(s) = s.out.rast

\* C15: the passes and the persisted output of a group do not depend on the
\* groups processed or skipped before it: every solve of the run is the
\* solve of its group alone, and when the run has completed every group
\* whose output was not there at the start has had such a solve.
C15_GroupsIndependent ==
  /\ \A n \in DOMAIN solved : IsOwnSolve(solved[n])
  /\ pc = "done" =>
        \A g \in Groups :
           RastName(g) \notin DOMAIN runlog.rast0 =>
             \E n \in ThisRun : solved[n].grp = g

\* C16: with another run at work on the same output store, the transient
\* rasters of a solve live under names the other never writes: when the
\* solve composes its output, every raster it reads by a name of its pass
\* list is the raster its own oracle call produced.
C16_TransientsPrivate ==
  pc \in {"single", "compose"} =>
    \A k \in DOMAIN cds : pgdb.rast[cds[k]] = calls[k].rast

\* The ids of the rows of a connector table, and the connector rows that
\* have a value in the raster r.
Ids(tab) == {tab[j].id : j \in DOMAIN tab}
ValuedConnectors(r) ==
  SelectSeq([j \in DOMAIN rampPts |->
               [id |-> rampPts[j].id, cell |-> rampPts[j].cell, val |-> r[rampPts[j].cell]]],
            LAMBDA row : row.val # NoData)
SurfOf(k) == IF k % 2 = 0 THEN costRastHwy ELSE costRastLoc

C18_ImprovedOnSameSheet ==
  [][ /\ pc = "hwy" =>
           LET imp == Improved(RampDict(rp2s'), IF c = 1 THEN EmptyFn ELSE RampDict(rp2s))
           IN notin' = imp /\ (pc' = "compose" <=> imp = {})
      /\ pc = "back" =>
           LET imp == Improved(RampDict(rp1s'), RampDict(rp1s))
           IN notin' = imp /\ (pc' = "compose" <=> imp = {}) ]_vars

AtLookup ==
  /\ pc = "groups" /\ gi <= Len(grps)
  /\ RastName(grps[gi]) \notin DOMAIN outGDB.rast
  /\ maxCost # None

\* C20: the presence of maxCost is decided the same way everywhere: when a
\* group's cutoff is looked up, the group -> cutoff table has been built
\* and holds the group, for every maxCost (None, a field name, any number,
\* 0 included); and during a solve the extent is the buffer restriction
\* exactly when a cutoff is passed to the oracle.
C20_CutoffPresenceConsistent ==
  /\ AtLookup => grp_min.bound /\ grps[gi] \in DOMAIN grp_min.tab
  /\ pc \in {"local", "hwy", "back", "single", "compose"} =>
        env.extent = IF grpMaxCost = None THEN Cells
                     ELSE BufferExtent(outGDB.feats[cdpts], grpMaxCost.val)

====
